---- MODULE Spec2Model ----
(***************************************************************************)
(* Protocol-handling layer of the NEP mail gateway.                        *)
(*                                                                         *)
(*   SpecSMTP  one connection of the SMTP-compatible server                *)
(*             (src/core/nept.py, NEPTServer)                              *)
(*   SpecNEP   one connection of the native server                         *)
(*             (src/core/nep.py, NEPServer)                                *)
(*                                                                         *)
(* A step of either specification runs the handler from one read of the    *)
(* connection to the next one.  Text is a sequence of one-character        *)
(* strings, so that startswith, strip, upper, slicing and join are         *)
(* computed as the Python code computes them.                              *)
(***************************************************************************)
EXTENDS Integers, Sequences, FiniteSets, TLC

\* ------------------------------------------------------------------ bounds

\* lines read from one SMTP connection
MaxLines == 6
\* frames read from one native connection after the credential frame
MaxFrames == 2
\* requests served by the HTTP gateway
MaxRequests == 2
\* connections the two acceptors hand to concurrent sessions
MaxConns == 2

\* ------------------------------------------------------------ text helpers

CR == "\r"
LF == "\n"
CRLF == <<CR, LF>>

LowerAlpha ==
  <<"a","b","c","d","e","f","g","h","i","j","k","l","m",
    "n","o","p","q","r","s","t","u","v","w","x","y","z">>
UpperAlpha ==
  <<"A","B","C","D","E","F","G","H","I","J","K","L","M",
    "N","O","P","Q","R","S","T","U","V","W","X","Y","Z">>

\* str.upper() on one character
UpperChar(c) ==
  IF \E i \in 1..26 : LowerAlpha[i] = c
    THEN UpperAlpha[CHOOSE i \in 1..26 : LowerAlpha[i] = c]
    ELSE c

\* str.upper()
Upper(s) == [i \in 1..Len(s) |-> UpperChar(s[i])]

\* str.startswith(p)
StartsWith(s, p) == Len(s) >= Len(p) /\ SubSeq(s, 1, Len(p)) = p

\* s[n:]
From(s, n) == SubSeq(s, n + 1, Len(s))

\* the characters str.strip() removes when called without an argument
Whitespace == {" ", "\t", CR, LF}

RECURSIVE LStrip(_, _)
LStrip(s, chars) ==
  IF s # <<>> /\ Head(s) \in chars THEN LStrip(Tail(s), chars) ELSE s

RECURSIVE RStrip(_, _)
RStrip(s, chars) ==
  IF s # <<>> /\ s[Len(s)] \in chars
    THEN RStrip(SubSeq(s, 1, Len(s) - 1), chars)
    ELSE s

\* str.strip(chars)
Strip(s, chars) == RStrip(LStrip(s, chars), chars)

\* ''.join(parts)
RECURSIVE Join(_)
Join(parts) == IF parts = <<>> THEN <<>> ELSE Head(parts) \o Join(Tail(parts))

\* str.split(): the whitespace-separated words of s
RECURSIVE Split(_)
Split(s) ==
  LET t == LStrip(s, Whitespace) IN
  IF t = <<>> THEN <<>>
  ELSE LET n == IF \E i \in 1..Len(t) : t[i] \in Whitespace
                  THEN (CHOOSE i \in 1..Len(t) :
                          /\ t[i] \in Whitespace
                          /\ \A j \in 1..(i - 1) : t[j] \notin Whitespace) - 1
                  ELSE Len(t)
       IN <<SubSeq(t, 1, n)>> \o Split(From(t, n))

\* Python's None and a present value
None == <<>>
Some(v) == <<v>>


\* ------------------------------------------------------------------ state

VARIABLES
  smtp_pc,        \* where the SMTP connection's coroutine waits
  current_email,  \* process_smtp: the transaction being assembled
  data,           \* read_email_data: the lines captured so far
  line,           \* the line the reader returned last, as received
  smtp_reads,     \* how many lines the reader has returned
  smtp_tx,        \* the reply codes written to the connection
  given,          \* history: the addresses the peer gave since the last
                  \* MAIL FROM or completed DATA (no state of the program)
  greeted,        \* history: whether a HELO or EHLO of the peer was answered
  storage_calls,  \* the calls the handlers made on the Storage object
  nep_pc,         \* where the native connection's coroutine waits
  session,        \* handle_client: the session authenticate returned
  nep_rx,         \* the frames the reader has returned on the connection
  nep_tx,         \* what was written to the native connection
  limiter_calls,  \* the calls the handlers made on their RateLimiter
  http_requests,  \* how many requests the HTTP gateway has served
  http_request,   \* the request the HTTP gateway served last
  http_response,  \* what it answered
  accepting,      \* whether the acceptors of the two servers are listening
  conns           \* concurrent sessions: what each accepted connection is at

smtp_vars ==
  <<smtp_pc, current_email, data, line, smtp_reads, smtp_tx, given, greeted>>
nep_vars == <<nep_pc, session, nep_rx, nep_tx, limiter_calls>>
http_vars == <<http_requests, http_request, http_response>>
conc_vars == <<accepting, conns>>
rest_vars == <<http_vars, conc_vars>>
vars == <<smtp_vars, nep_vars, storage_calls, rest_vars>>

\* ---------------------------------------------------- SMTP: the peer's lines

\* what a peer may send while the server waits for a command
CmdLines ==
  { <<"H","E","L","O"," ","x">> \o CRLF,
    <<"M","A","I","L"," ","F","R","O","M",":","<","a",">">> \o CRLF,
    <<"m","a","i","l"," ","f","r","o","m",":","<","c",">">> \o CRLF,
    <<"R","C","P","T"," ","T","O",":","<","b",">">> \o CRLF,
    <<"R","C","P","T"," ","T","O",":"," ","d">> \o CRLF,
    <<"D","A","T","A">> \o CRLF,
    <<"Q","U","I","T">> \o CRLF,
    <<"N","O","O","P">> \o CRLF,
    <<"A","U","T","H"," ","P","L","A","I","N">> \o CRLF,
    <<"A","U","T","H"," ","L","O","G","I","N">> \o CRLF }

\* what a peer may send while the server captures a body
BodyLines ==
  { <<".">> \o CRLF,
    <<"h">> \o CRLF,
    <<".", ".">> \o CRLF,
    <<".", "h">> \o CRLF,
    <<".", ".", "h">> \o CRLF,
    <<"Q","U","I","T">> \o CRLF }

\* the credential line a peer may send after AUTH PLAIN
CredLines ==
  { <<"g","o","o","d">> \o CRLF,
    <<"b","a","d">> \o CRLF,
    <<"Q","U","I","T">> \o CRLF }

\* --------------------------------------------------- SMTP: external parties

\* utils.converter.smtp_to_nep: the CanonicalEmail of a transaction, or the
\* translation error when the sender or every recipient is absent
smtp_to_nep(msg, from, to) ==
  IF from = None \/ to = <<>>
    THEN [ok |-> FALSE]
    ELSE [ok |-> TRUE,
          email |-> [from_addr |-> from[1], to_addrs |-> to, source |-> msg]]

\* utils.auth.authenticate_smtp: whether the credential line is accepted
authenticate_smtp(cred) == cred = <<"g","o","o","d">>

\* ------------------------------------------------------- SMTP: process_smtp

EmptyEmail == [from |-> None, to |-> <<>>, data |-> None]

NothingGiven == [from |-> None, to |-> <<>>]

\* line = data.decode().strip()
CommandOf(raw) == Strip(raw, Whitespace)

\* the branch of the if/elif chain of process_smtp that a command takes
Branch(cmd) ==
  LET u == Upper(cmd) IN
  IF StartsWith(u, <<"H","E","L","O">>) \/ StartsWith(u, <<"E","H","L","O">>)
    THEN "HELO"
  ELSE IF StartsWith(u, <<"A","U","T","H">>) THEN "AUTH"
  ELSE IF StartsWith(u, <<"M","A","I","L"," ","F","R","O","M",":">>)
    THEN "MAIL"
  ELSE IF StartsWith(u, <<"R","C","P","T"," ","T","O",":">>) THEN "RCPT"
  ELSE IF u = <<"D","A","T","A">> THEN "DATA"
  ELSE IF u = <<"Q","U","I","T">> THEN "QUIT"
  ELSE "OTHER"

\* the branch each line of the peer takes
BranchOf == [raw \in CmdLines |-> Branch(CommandOf(raw))]

\* the reader returns one more line
Read(raw) ==
  /\ smtp_reads < MaxLines
  /\ smtp_reads' = smtp_reads + 1
  /\ line' = raw

Reply(code) == smtp_tx' = Append(smtp_tx, code)

\* handle_client: the greeting, then process_smtp up to its first read
Greet ==
  /\ smtp_pc = "new"
  /\ Reply(220)
  /\ current_email' = EmptyEmail
  /\ smtp_pc' = "cmd"
  /\ UNCHANGED <<data, line, smtp_reads, given, storage_calls, greeted,
                 nep_vars, rest_vars>>

Helo ==
  /\ smtp_pc = "cmd"
  /\ \E raw \in CmdLines : BranchOf[raw] = "HELO" /\ Read(raw)
  /\ Reply(250)
  /\ greeted' = TRUE
  /\ UNCHANGED <<smtp_pc, current_email, data, given, storage_calls, nep_vars,
                 rest_vars>>

\* whether handle_smtp_auth goes on to read a credential line
WantsCredential(cmd) ==
  LET parts == Split(cmd) IN
  Len(parts) >= 2 /\ Upper(parts[2]) = <<"P","L","A","I","N">>

\* handle_smtp_auth up to its read of the credential line, or to its refusal
Auth ==
  /\ smtp_pc = "cmd"
  /\ \E raw \in CmdLines :
       /\ BranchOf[raw] = "AUTH"
       /\ Read(raw)
       /\ IF WantsCredential(CommandOf(raw))
            THEN smtp_pc' = "auth" /\ UNCHANGED smtp_tx
            ELSE smtp_pc' = "cmd" /\ Reply(535)
  /\ UNCHANGED <<current_email, data, given, storage_calls, greeted, nep_vars, rest_vars>>

\* handle_smtp_auth from the credential line on
AuthCredential ==
  /\ smtp_pc = "auth"
  /\ \E raw \in CredLines :
       /\ Read(raw)
       /\ Reply(IF authenticate_smtp(Strip(raw, Whitespace)) THEN 235 ELSE 535)
  /\ smtp_pc' = "cmd"
  /\ UNCHANGED <<current_email, data, given, storage_calls, greeted, nep_vars, rest_vars>>

\* line[10:].strip('<> ')
SenderOf(cmd) == Strip(From(cmd, 10), {"<", ">", " "})

\* the MAIL FROM branch: the transaction it leaves
WithSender(email, cmd) == [email EXCEPT !.from = Some(SenderOf(cmd))]

MailFrom ==
  /\ smtp_pc = "cmd"
  /\ \E raw \in CmdLines :
       /\ BranchOf[raw] = "MAIL"
       /\ Read(raw)
       /\ current_email' = WithSender(current_email, CommandOf(raw))
       /\ given' = [from |-> Some(SenderOf(CommandOf(raw))), to |-> <<>>]
  /\ Reply(250)
  /\ UNCHANGED <<smtp_pc, data, storage_calls, greeted, nep_vars, rest_vars>>

\* line[8:].strip('<> ')
RecipientOf(cmd) == Strip(From(cmd, 8), {"<", ">", " "})

RcptTo ==
  /\ smtp_pc = "cmd"
  /\ \E raw \in CmdLines :
       /\ BranchOf[raw] = "RCPT"
       /\ Read(raw)
       /\ current_email' =
            [current_email EXCEPT !.to = Append(@, RecipientOf(CommandOf(raw)))]
       /\ given' = [given EXCEPT !.to = Append(@, RecipientOf(CommandOf(raw)))]
  /\ Reply(250)
  /\ UNCHANGED <<smtp_pc, data, storage_calls, greeted, nep_vars, rest_vars>>

\* the DATA branch up to the first read of read_email_data
Data ==
  /\ smtp_pc = "cmd"
  /\ \E raw \in CmdLines : BranchOf[raw] = "DATA" /\ Read(raw)
  /\ Reply(354)
  /\ data' = <<>>
  /\ smtp_pc' = "data"
  /\ UNCHANGED <<current_email, given, storage_calls, greeted, nep_vars, rest_vars>>

\* read_email_data: the end marker
IsEndMarker(line_str) == line_str = <<".">> \o CRLF

\* read_email_data: what a line that is not the end marker adds to the body
Unstuff(line_str) ==
  IF StartsWith(line_str, <<".", ".">>) THEN From(line_str, 1) ELSE line_str

BodyLine ==
  /\ smtp_pc = "data"
  /\ \E raw \in BodyLines :
       /\ ~IsEndMarker(raw)
       /\ Read(raw)
       /\ data' = Append(data, Unstuff(raw))
  /\ UNCHANGED <<smtp_pc, current_email, smtp_tx, given, storage_calls,
                 greeted, nep_vars, rest_vars>>

\* the transaction the DATA branch goes on with once the email is stored
ResetTransaction == EmptyEmail

\* BodyEnd with the 250 written before store_smtp_email is awaited
BodyEnd_ReplyBeforeStore ==
  /\ smtp_pc = "data"
  /\ \E raw \in BodyLines : IsEndMarker(raw) /\ Read(raw)
  /\ Reply(250)
  /\ LET email_data == [current_email EXCEPT !.data = Some(Join(data))]
         nep == smtp_to_nep(Join(data), email_data.from, email_data.to)
     IN IF ~nep.ok
          THEN /\ current_email' = email_data
               /\ smtp_pc' = "closed"
               /\ UNCHANGED <<given, storage_calls>>
          ELSE \E stored \in BOOLEAN :
                 /\ storage_calls' =
                      Append(storage_calls,
                             [op |-> "store_email", arg |-> nep.email,
                              ok |-> stored])
                 /\ IF stored
                      THEN /\ current_email' = ResetTransaction
                           /\ given' = NothingGiven
                           /\ smtp_pc' = "cmd"
                      ELSE /\ current_email' = email_data
                           /\ smtp_pc' = "closed"
                           /\ UNCHANGED given
  /\ UNCHANGED <<data, greeted, nep_vars, rest_vars>>

\* read_email_data returns; the rest of the DATA branch with store_smtp_email.
\* An exception of smtp_to_nep or of store_email leaves process_smtp and is
\* caught by handle_client, which closes the connection.
BodyEnd ==
  /\ smtp_pc = "data"
  /\ \E raw \in BodyLines : IsEndMarker(raw) /\ Read(raw)
  /\ LET email_data == [current_email EXCEPT !.data = Some(Join(data))]
         nep == smtp_to_nep(Join(data), email_data.from, email_data.to)
     IN IF ~nep.ok
          THEN /\ current_email' = email_data
               /\ smtp_pc' = "closed"
               /\ UNCHANGED <<smtp_tx, given, storage_calls>>
          ELSE \E stored \in BOOLEAN :
                 /\ storage_calls' =
                      Append(storage_calls,
                             [op |-> "store_email", arg |-> nep.email,
                              ok |-> stored])
                 /\ IF stored
                      THEN /\ Reply(250)
                           /\ current_email' = ResetTransaction
                           /\ given' = NothingGiven
                           /\ smtp_pc' = "cmd"
                      ELSE /\ current_email' = email_data
                           /\ smtp_pc' = "closed"
                           /\ UNCHANGED <<smtp_tx, given>>
  /\ UNCHANGED <<data, greeted, nep_vars, rest_vars>>

\* the QUIT branch without its break
Quit_NoBreak ==
  /\ smtp_pc = "cmd"
  /\ \E raw \in CmdLines : BranchOf[raw] = "QUIT" /\ Read(raw)
  /\ Reply(221)
  /\ UNCHANGED <<smtp_pc, current_email, data, given, storage_calls, greeted,
                 nep_vars, rest_vars>>

Quit ==
  /\ smtp_pc = "cmd"
  /\ \E raw \in CmdLines : BranchOf[raw] = "QUIT" /\ Read(raw)
  /\ Reply(221)
  /\ smtp_pc' = "closed"
  /\ UNCHANGED <<current_email, data, given, storage_calls, greeted, nep_vars, rest_vars>>

\* the else branch starting a new transaction after its 500
Unrecognized_Resets ==
  /\ smtp_pc = "cmd"
  /\ \E raw \in CmdLines : BranchOf[raw] = "OTHER" /\ Read(raw)
  /\ Reply(500)
  /\ current_email' = EmptyEmail
  /\ UNCHANGED <<smtp_pc, data, given, storage_calls, greeted, nep_vars,
                 rest_vars>>

Unrecognized ==
  /\ smtp_pc = "cmd"
  /\ \E raw \in CmdLines : BranchOf[raw] = "OTHER" /\ Read(raw)
  /\ Reply(500)
  /\ UNCHANGED <<smtp_pc, current_email, data, given, storage_calls, greeted,
                 nep_vars, rest_vars>>

\* SmtpDisconnect with the lines read so far handed to store_smtp_email when
\* the peer closes within a body
SmtpDisconnect_StoresPartial ==
  /\ smtp_pc \in {"cmd", "auth", "data"}
  /\ smtp_pc' = "closed"
  /\ storage_calls' =
       IF smtp_pc = "data"
         THEN Append(storage_calls,
                     [op |-> "store_email",
                      arg |-> [from_addr |-> current_email.from,
                               to_addrs |-> current_email.to,
                               source |-> Join(data)],
                      ok |-> TRUE])
         ELSE storage_calls
  /\ UNCHANGED <<current_email, data, line, smtp_reads, smtp_tx, given,
                 greeted, nep_vars, rest_vars>>

\* the peer closes while the server waits in readuntil: IncompleteReadError
\* leaves process_smtp and handle_client closes the connection
SmtpDisconnect ==
  /\ smtp_pc \in {"cmd", "auth", "data"}
  /\ smtp_pc' = "closed"
  /\ UNCHANGED <<current_email, data, line, smtp_reads, smtp_tx, given,
                 storage_calls, greeted, nep_vars, rest_vars>>

\* ------------------------------------------------- native: the peer's frames

\* the first frame of a connection; the empty one is a peer that closed
CredentialFrames == {"alice:secret", "mallory:guess", ""}

SendFields ==
  [type |-> "send", to |-> <<"b@x">>, subject |-> "hi", body |-> "there",
   attachments |-> <<"blob">>]

ListFields == [type |-> "list", mailbox |-> "Sent", limit |-> 10, offset |-> 5]

\* the JSON objects a peer may send: every choice of the fields of a send and
\* of a list, the other request types, and an object without a type
Requests ==
  { [k \in ks \cup {"type"} |-> SendFields[k]] :
      ks \in SUBSET {"to", "subject", "body", "attachments"} }
  \cup { [k \in ks \cup {"type"} |-> ListFields[k]] :
           ks \in SUBSET {"mailbox", "limit", "offset"} }
  \cup { [type |-> t] : t \in {"fetch", "update", "purge"} }
  \cup { [subject |-> "hi"] }

\* the frames a peer may send after AUTH_OK: bytes that are no JSON text, a
\* JSON text that is no object, and the JSON text of a request
Frames ==
  { [kind |-> "garbage"], [kind |-> "array"] }
  \cup { [kind |-> "object", fields |-> r] : r \in Requests }

\* ------------------------------------------------- native: external parties

\* utils.auth.authenticate: the session of a valid credential frame, or None
authenticate(auth_data) ==
  IF auth_data = "alice:secret"
    THEN Some([user_id |-> "alice", email |-> "alice@x"])
    ELSE None

\* models.mail.EmailMessage(...)
EmailMessage(from_addr, to_addrs, subject, body, attachments) ==
  [from_addr |-> from_addr, to_addrs |-> to_addrs, subject |-> subject,
   body |-> body, attachments |-> attachments]

\* email.message_id of the n-th email handed to Storage
MessageId(n) == n

\* ---------------------------------------------------- native: the handlers

\* json.loads(data.decode()): raises on bytes that are no JSON text
JsonLoads(frame) ==
  IF frame.kind = "garbage"
    THEN [raised |-> TRUE]
    ELSE [raised |-> FALSE, isdict |-> frame.kind = "object",
          value |-> IF frame.kind = "object" THEN frame.fields ELSE <<>>]

\* request[key] raises when request is no dict or lacks the key
HasKey(loaded, key) == loaded.isdict /\ key \in DOMAIN loaded.value

\* request.get(key, default)
Get(request, key, default) ==
  IF key \in DOMAIN request THEN request[key] ELSE default

\* Whether the name json is bound where handle_send and handle_list use it.
\* The module imports asyncio, logging, typing, authenticate, RateLimiter and
\* EmailMessage; json is imported inside process_request only, which binds a
\* local name of that function.  In the two handlers json.dumps(response)
\* therefore raises NameError before anything is written.
JsonBoundInHandlers == FALSE

Error(code) == [status |-> "error", code |-> code]

\* What a handler called by process_request did: the Storage calls it made, in
\* order, and either the response it wrote or that it raised.
Returned(calls, response) ==
  IF JsonBoundInHandlers
    THEN [calls |-> calls, raised |-> FALSE, written |-> <<response>>]
    ELSE [calls |-> calls, raised |-> TRUE, written |-> <<>>]

Raised(calls) == [calls |-> calls, raised |-> TRUE, written |-> <<>>]

\* the fields handle_send requires
SendRequired == {"to", "subject", "body"}

\* handle_send; stored is whether storage.store_email returns or raises
handle_send(request, sess, stored) ==
  IF ~(SendRequired \subseteq DOMAIN request)
    THEN Returned(<<>>, Error("invalid_data"))
    ELSE LET email == EmailMessage(sess.email, request.to, request.subject,
                                   request.body,
                                   Get(request, "attachments", <<>>))
             call == [op |-> "store_email", arg |-> email, ok |-> stored]
         IN Returned(<<call>>,
                     IF stored
                       THEN [status |-> "ok",
                             message_id |-> MessageId(Len(storage_calls) + 1)]
                       ELSE Error("storage_error"))

\* handle_list passing limit and offset to list_emails in the wrong order
handle_list_SwappedPaging(request, sess, listed) ==
  LET mailbox == Get(request, "mailbox", "INBOX")
      limit == Get(request, "limit", 50)
      offset == Get(request, "offset", 0)
      call == [op |-> "list_emails",
               arg |-> <<sess.email, mailbox, offset, limit>>, ok |-> listed]
  IN Returned(<<call>>,
              IF listed
                THEN [status |-> "ok", emails |-> <<>>]
                ELSE Error("storage_error"))

\* handle_list; listed is whether storage.list_emails returns or raises
handle_list(request, sess, listed) ==
  LET mailbox == Get(request, "mailbox", "INBOX")
      limit == Get(request, "limit", 50)
      offset == Get(request, "offset", 0)
      call == [op |-> "list_emails",
               arg |-> <<sess.email, mailbox, limit, offset>>, ok |-> listed]
  IN Returned(<<call>>,
              IF listed
                THEN [status |-> "ok", emails |-> <<>>]
                ELSE Error("storage_error"))

\* process_request after the rate limiter admitted the request: NEPServer has
\* no handle_fetch and no handle_update, so those two branches raise
\* AttributeError
Dispatch(request, sess, storage_ok) ==
  IF request.type = "send" THEN handle_send(request, sess, storage_ok)
  ELSE IF request.type = "list" THEN handle_list(request, sess, storage_ok)
  ELSE IF request.type = "fetch" THEN Raised(<<>>)
  ELSE IF request.type = "update" THEN Raised(<<>>)
  ELSE [calls |-> <<>>, raised |-> FALSE,
        written |-> <<Error("invalid_request")>>]

\* process_request without the return that follows the rate_limit_exceeded
\* response: a denied request is answered and dispatched all the same
process_request_NoReturn(frame, sess, allowed, storage_ok) ==
  LET loaded == JsonLoads(frame) IN
  IF loaded.raised \/ ~HasKey(loaded, "type")
    THEN [checks |-> <<>>, calls |-> <<>>,
          written |-> <<Error("server_error")>>]
    ELSE LET request == loaded.value
             check == [user |-> sess.user_id, type |-> request.type,
                       allowed |-> allowed]
             denial == IF allowed THEN <<>>
                       ELSE <<Error("rate_limit_exceeded")>>
             done == Dispatch(request, sess, storage_ok)
         IN [checks |-> <<check>>, calls |-> done.calls,
             written |-> denial \o (IF done.raised
                                      THEN done.written
                                             \o <<Error("server_error")>>
                                      ELSE done.written)]

\* process_request: the RateLimiter calls and Storage calls made and the
\* responses written for one frame.  allowed is what check_limit answers and
\* storage_ok whether the Storage call returns.
process_request(frame, sess, allowed, storage_ok) ==
  LET loaded == JsonLoads(frame) IN
  IF loaded.raised \/ ~HasKey(loaded, "type")
    THEN [checks |-> <<>>, calls |-> <<>>,
          written |-> <<Error("server_error")>>]
    ELSE LET request == loaded.value
             check == [user |-> sess.user_id, type |-> request.type,
                       allowed |-> allowed]
         IN IF ~allowed
              THEN [checks |-> <<check>>, calls |-> <<>>,
                    written |-> <<Error("rate_limit_exceeded")>>]
              ELSE LET done == Dispatch(request, sess, storage_ok) IN
                   [checks |-> <<check>>, calls |-> done.calls,
                    written |-> IF done.raised
                                  THEN done.written
                                         \o <<Error("server_error")>>
                                  ELSE done.written]

\* ------------------------------------------------ native: handle_client

\* the two tokens written in answer to the credential frame
AUTH_OK == [token |-> "AUTH_OK"]
AUTH_FAILED == [token |-> "AUTH_FAILED"]

\* NepAuthenticate without the return that follows AUTH_FAILED
NepAuthenticate_NoReturn ==
  /\ nep_pc = "auth"
  /\ \E auth_data \in CredentialFrames :
       /\ nep_rx' = Append(nep_rx, auth_data)
       /\ session' = authenticate(auth_data)
       /\ IF authenticate(auth_data) = None
            THEN nep_tx' = Append(nep_tx, AUTH_FAILED) /\ nep_pc' = "loop"
            ELSE nep_tx' = Append(nep_tx, AUTH_OK) /\ nep_pc' = "loop"
  /\ UNCHANGED <<limiter_calls, storage_calls, smtp_vars, rest_vars>>

\* the credential frame: AUTH_FAILED and close, or AUTH_OK and the request loop
NepAuthenticate ==
  /\ nep_pc = "auth"
  /\ \E auth_data \in CredentialFrames :
       /\ nep_rx' = Append(nep_rx, auth_data)
       /\ session' = authenticate(auth_data)
       /\ IF authenticate(auth_data) = None
            THEN nep_tx' = Append(nep_tx, AUTH_FAILED) /\ nep_pc' = "closed"
            ELSE nep_tx' = Append(nep_tx, AUTH_OK) /\ nep_pc' = "loop"
  /\ UNCHANGED <<limiter_calls, storage_calls, smtp_vars, rest_vars>>

\* one frame of the request loop
NepRequest ==
  /\ nep_pc = "loop"
  /\ Len(nep_rx) < 1 + MaxFrames
  /\ \E frame \in Frames, allowed \in BOOLEAN, storage_ok \in BOOLEAN :
       LET done == process_request(frame, session[1], allowed, storage_ok) IN
       /\ nep_rx' = Append(nep_rx, frame)
       /\ limiter_calls' = limiter_calls \o done.checks
       /\ storage_calls' = storage_calls \o done.calls
       /\ nep_tx' = nep_tx \o done.written
  /\ UNCHANGED <<nep_pc, session, smtp_vars, rest_vars>>

\* reader.read returns b'': the loop ends and the connection is closed
NepEof ==
  /\ nep_pc = "loop"
  /\ nep_pc' = "closed"
  /\ UNCHANGED <<session, nep_rx, nep_tx, limiter_calls, storage_calls,
                 smtp_vars, rest_vars>>

\* --------------------------------------------------------- HTTP gateway

\* the routes _setup_routes registers, each under the name of the method it
\* hands to the router
Routes ==
  { "web_index", "web_inbox", "web_compose", "api_auth", "api_list_mails",
    "api_get_mail", "api_send_mail", "api_update_mail", "api_create_user",
    "api_delete_user" }

\* the methods of that list which the class defines
Handlers ==
  { "web_index", "web_inbox", "api_auth", "api_list_mails", "api_send_mail" }

\* what a request carries as its session
Cookies == { "none", "stale", "sid" }

\* the JSON bodies posted to /api/mails
Payloads ==
  { [to |-> <<"b">>, body |-> "hi"], [to |-> <<>>, body |-> "hi"] }

NoData == [to |-> <<>>, body |-> ""]

NoRequest == [route |-> "none", cookie |-> "none", data |-> NoData]
NoResponse == [status |-> 0, raised |-> "none"]

\* the session of a request, or None
authenticate_web(cookie) ==
  IF cookie = "sid"
    THEN Some([session_id |-> "sid", email |-> "alice@x"])
    ELSE None

\* the translation of a posted body: it reports a failure when a required
\* field is absent
http_to_nep(payload, email) ==
  IF payload.to = <<>>
    THEN [ok |-> FALSE]
    ELSE [ok |-> TRUE,
          email |-> [from_addr |-> email, to_addrs |-> payload.to,
                     source |-> payload.body]]

\* a response with a status; HTTPException(status_code) is answered with it
\* and an exception nobody catches with 500
Status(code) == [status |-> code, raised |-> "none"]

\* the gateway takes requests one after another
Listening == http_requests < MaxRequests

\* a request is received, answered with response, after the Storage calls
Serve(request, calls, response) ==
  /\ http_requests' = http_requests + 1
  /\ http_request' = request
  /\ storage_calls' = storage_calls \o calls
  /\ http_response' = response
  /\ UNCHANGED <<smtp_vars, nep_vars, conc_vars>>

RequestsOf(route) ==
  { [route |-> route, cookie |-> cookie, data |-> payload] :
      cookie \in Cookies,
      payload \in IF route = "api_send_mail" THEN Payloads ELSE {NoData} }

web_index ==
  /\ Listening
  /\ \E request \in RequestsOf("web_index") :
       Serve(request, <<>>, Status(200))

\* the request comes without a valid session
Unauthorized(request) == authenticate_web(request.cookie) = None

web_inbox ==
  /\ Listening
  /\ \E request \in RequestsOf("web_inbox"), listed \in BOOLEAN :
       IF Unauthorized(request)
         THEN Serve(request, <<>>, Status(401))
         ELSE LET sess == authenticate_web(request.cookie)[1]
                  call == [op |-> "list_emails",
                           arg |-> <<sess.email, "INBOX", 50, 0>>,
                           ok |-> listed]
              IN Serve(request, <<call>>,
                       IF listed THEN Status(200) ELSE Status(500))

api_auth ==
  /\ Listening
  /\ \E request \in RequestsOf("api_auth") :
       Serve(request, <<>>,
             IF Unauthorized(request) THEN Status(401) ELSE Status(200))

api_list_mails ==
  /\ Listening
  /\ \E request \in RequestsOf("api_list_mails"), listed \in BOOLEAN :
       IF Unauthorized(request)
         THEN Serve(request, <<>>, Status(401))
         ELSE LET sess == authenticate_web(request.cookie)[1]
                  call == [op |-> "list_emails",
                           arg |-> <<sess.email, "INBOX", 50, 0>>,
                           ok |-> listed]
              IN Serve(request, <<call>>,
                       IF listed THEN Status(200) ELSE Status(500))

api_send_mail ==
  /\ Listening
  /\ \E request \in RequestsOf("api_send_mail"), stored \in BOOLEAN :
       IF Unauthorized(request)
         THEN Serve(request, <<>>, Status(401))
         ELSE LET sess == authenticate_web(request.cookie)[1]
                  nep == http_to_nep(request.data, sess.email)
              IN IF ~nep.ok
                   THEN Serve(request, <<>>, Status(500))
                   ELSE Serve(request,
                              <<[op |-> "store_email", arg |-> nep.email,
                                 ok |-> stored]>>,
                              IF stored THEN Status(200) ELSE Status(500))

\* a route whose method the class does not define: reading the attribute
\* raises AttributeError where the route is set up, and no handler answers
Unbound ==
  /\ Listening
  /\ \E route \in Routes \ Handlers :
       \E request \in RequestsOf(route) :
         Serve(request, <<>>, [status |-> 0, raised |-> "AttributeError"])

\* ---------------------------------------------------- concurrent sessions

\* Each server hands every connection it accepts to a handle_client task of
\* its own (asyncio.start_server); a task runs until its next await, so the
\* sessions interleave between awaits.  A session's record holds what its
\* task's locals hold: where it stands, how many requests (lines) it read and
\* answered, and the steps the request in flight still has to take.

Conns == 1..MaxConns

\* a connection no peer has opened yet
Free ==
  [kind |-> "none", pc |-> "free", frames |-> 0, answered |-> 0,
   todo |-> <<>>, end |-> "none"]

Opened(kind, pc) ==
  [kind |-> kind, pc |-> pc, frames |-> 0, answered |-> 0, todo |-> <<>>,
   end |-> "none"]

\* the steps process_request takes for a frame, each ending in an await: the
\* RateLimiter check, the Storage calls, the writes of the response
StepsOf(frame, allowed, storage_ok) ==
  LET done == process_request(frame, authenticate("alice:secret")[1],
                              allowed, storage_ok)
  IN (IF done.checks = <<>> THEN <<>> ELSE <<"check">>)
       \o [i \in 1..Len(done.calls) |-> "call"]
       \o [i \in 1..Len(done.written) |-> "write"]

Plans ==
  { StepsOf(frame, allowed, storage_ok) :
      frame \in Frames, allowed \in BOOLEAN, storage_ok \in BOOLEAN }

\* one session's task changes its own locals
Update(c, record) ==
  /\ conns' = [conns EXCEPT ![c] = record]
  /\ UNCHANGED <<accepting, smtp_vars, nep_vars, storage_calls, http_vars>>

\* finally: writer.close(), with every other connection and the acceptor of
\* the server shut down as well
Close_All(c, why) ==
  /\ conns' = [d \in Conns |->
                 IF conns[d].pc = "free" THEN conns[d]
                 ELSE [conns[d] EXCEPT !.pc = "closed", !.end = why]]
  /\ accepting' = FALSE
  /\ UNCHANGED <<smtp_vars, nep_vars, storage_calls, http_vars>>

\* finally: writer.close()
Close(c, why) ==
  Update(c, [conns[c] EXCEPT !.pc = "closed", !.end = why])

\* the native server accepts a connection
NepAccept ==
  /\ accepting
  /\ \E c \in Conns :
       /\ conns[c] = Free
       /\ Update(c, Opened("nep", "auth"))

\* the SMTP server accepts a connection
SmtpAccept ==
  /\ accepting
  /\ \E c \in Conns :
       /\ conns[c] = Free
       /\ Update(c, Opened("smtp", "greet"))

\* the credential frame of a native session
ConnAuthenticate ==
  \E c \in Conns, auth_data \in CredentialFrames :
    /\ conns[c].kind = "nep"
    /\ conns[c].pc = "auth"
    /\ IF authenticate(auth_data) = None
         THEN Close(c, "auth")
         ELSE Update(c, [conns[c] EXCEPT !.pc = "read"])

\* ConnRead with process_request started as a task that is not awaited
ConnRead_Pipelined ==
  \E c \in Conns, plan \in Plans :
    /\ conns[c].kind = "nep"
    /\ conns[c].pc \in {"read", "busy"}
    /\ conns[c].frames < MaxFrames
    /\ Update(c, [conns[c] EXCEPT !.pc = "busy",
                                  !.frames = @ + 1,
                                  !.todo = @ \o plan])

\* a native session reads a request frame and enters process_request
ConnRead ==
  \E c \in Conns, plan \in Plans :
    /\ conns[c].kind = "nep"
    /\ conns[c].pc = "read"
    /\ conns[c].frames < MaxFrames
    /\ Update(c, [conns[c] EXCEPT !.pc = "busy",
                                  !.frames = @ + 1,
                                  !.todo = plan])

\* process_request goes on to its next await; after the write of the
\* response it returns and the loop reads again
ConnStep ==
  \E c \in Conns :
    /\ conns[c].kind = "nep"
    /\ conns[c].pc = "busy"
    /\ LET step == Head(conns[c].todo)
           rest == Tail(conns[c].todo)
       IN Update(c, [conns[c] EXCEPT
                       !.todo = rest,
                       !.answered = IF step = "write" THEN @ + 1 ELSE @,
                       !.pc = IF rest = <<>> THEN "read" ELSE "busy"])

\* read returns no data: the peer has closed its side
ConnEof ==
  \E c \in Conns :
    /\ conns[c].kind = "nep"
    /\ conns[c].pc = "read"
    /\ Close(c, "eof")

\* the connection breaks: the await the task stands at raises
ConnFault ==
  \E c \in Conns :
    /\ conns[c].kind = "nep"
    /\ conns[c].pc \in {"auth", "read", "busy"}
    /\ Close(c, "fault")

\* the 220 greeting
SmtpGreet ==
  \E c \in Conns :
    /\ conns[c].kind = "smtp"
    /\ conns[c].pc = "greet"
    /\ Update(c, [conns[c] EXCEPT !.pc = "cmd", !.answered = @ + 1])

\* a command other than DATA and QUIT, with its reply
SmtpCommand ==
  \E c \in Conns :
    /\ conns[c].kind = "smtp"
    /\ conns[c].pc = "cmd"
    /\ conns[c].frames <= MaxFrames
    /\ Update(c, [conns[c] EXCEPT !.frames = @ + 1, !.answered = @ + 1])

\* DATA and its 354
SmtpData ==
  \E c \in Conns :
    /\ conns[c].kind = "smtp"
    /\ conns[c].pc = "cmd"
    /\ conns[c].frames <= MaxFrames
    /\ Update(c, [conns[c] EXCEPT !.pc = "data",
                                  !.frames = @ + 1,
                                  !.answered = @ + 1])

\* a line of the body
SmtpBodyLine ==
  \E c \in Conns :
    /\ conns[c].kind = "smtp"
    /\ conns[c].pc = "data"
    /\ conns[c].frames <= MaxFrames
    /\ Update(c, [conns[c] EXCEPT !.frames = @ + 1])

\* the end of the body and store_smtp_email: stored and answered with 250,
\* or an exception of the translation or of store_email
SmtpBodyEnd ==
  \E c \in Conns, stored \in BOOLEAN :
    /\ conns[c].kind = "smtp"
    /\ conns[c].pc = "data"
    /\ conns[c].frames <= MaxFrames
    /\ IF stored
         THEN Update(c, [conns[c] EXCEPT !.pc = "cmd",
                                         !.frames = @ + 1,
                                         !.answered = @ + 1])
         ELSE Close(c, "fault")

\* QUIT and its 221
SmtpQuit ==
  \E c \in Conns :
    /\ conns[c].kind = "smtp"
    /\ conns[c].pc = "cmd"
    /\ Close(c, "quit")

\* the peer disconnects: readuntil raises IncompleteReadError
SmtpFault ==
  \E c \in Conns :
    /\ conns[c].kind = "smtp"
    /\ conns[c].pc \in {"greet", "cmd", "data"}
    /\ Close(c, "fault")

\* --------------------------------------------------------- specifications

Init ==
  /\ smtp_pc = "new"
  /\ current_email = EmptyEmail
  /\ data = <<>>
  /\ line = <<>>
  /\ smtp_reads = 0
  /\ smtp_tx = <<>>
  /\ given = NothingGiven
  /\ greeted = FALSE
  /\ storage_calls = <<>>
  /\ nep_pc = "auth"
  /\ session = None
  /\ nep_rx = <<>>
  /\ nep_tx = <<>>
  /\ limiter_calls = <<>>
  /\ http_requests = 0
  /\ http_request = NoRequest
  /\ http_response = NoResponse
  /\ accepting = TRUE
  /\ conns = [c \in Conns |-> Free]

NextSMTP ==
  \/ Greet
  \/ Helo
  \/ Auth
  \/ AuthCredential
  \/ MailFrom
  \/ RcptTo
  \/ Data
  \/ BodyLine
  \/ BodyEnd
  \/ Quit
  \/ Unrecognized
  \/ SmtpDisconnect

NextNEP ==
  \/ NepAuthenticate
  \/ NepRequest
  \/ NepEof

SpecSMTP == Init /\ [][NextSMTP]_vars

SpecNEP == Init /\ [][NextNEP]_vars

NextHTTP ==
  \/ web_index
  \/ web_inbox
  \/ api_auth
  \/ api_list_mails
  \/ api_send_mail
  \/ Unbound

SpecHTTP == Init /\ [][NextHTTP]_vars

NextConc ==
  \/ NepAccept
  \/ SmtpAccept
  \/ ConnAuthenticate
  \/ ConnRead
  \/ ConnStep
  \/ ConnEof
  \/ ConnFault
  \/ SmtpGreet
  \/ SmtpCommand
  \/ SmtpData
  \/ SmtpBodyLine
  \/ SmtpBodyEnd
  \/ SmtpQuit
  \/ SmtpFault

SpecConc == Init /\ [][NextConc]_vars


\* ------------------------------------------------------ steps, for the claims

Last(seq) == seq[Len(seq)]

\* the elements of a sequence
Range(seq) == {seq[i] : i \in 1..Len(seq)}

\* the SMTP server reads a line while it captures a body
BodyRead == smtp_pc = "data" /\ smtp_reads' = smtp_reads + 1

\* the SMTP server reads the lone dot that ends a body
DataCompletion == BodyRead /\ IsEndMarker(line')

\* the native server reads a frame in its request loop
FrameRead == nep_pc = "loop" /\ Len(nep_rx') = Len(nep_rx) + 1

\* that frame is a JSON object with a type field
TypedFrame ==
  /\ FrameRead
  /\ Last(nep_rx').kind = "object"
  /\ "type" \in DOMAIN Last(nep_rx').fields

\* the rate limiter is asked about that frame, and what it answers
Checked == Len(limiter_calls') = Len(limiter_calls) + 1
Denied == FrameRead /\ Checked /\ ~Last(limiter_calls').allowed
Admitted(type) ==
  /\ TypedFrame
  /\ Last(nep_rx').fields.type = type
  /\ Checked
  /\ Last(limiter_calls').allowed

\* the step makes no Storage call, or exactly this one
NoCall == storage_calls' = storage_calls
OneCall == Len(storage_calls') = Len(storage_calls) + 1

\* the step writes exactly this response
Writes(response) == nep_tx' = Append(nep_tx, response)

\* ------------------------------------------------------------------- C1

\* C1: while a body is captured, a line that is exactly a single dot ends the
\* capture and adds nothing to the body; every other line is appended to the
\* body, with exactly one leading dot removed when it begins with a dot.
C1_DotUnstuffing ==
  [][BodyRead =>
       IF line' = <<".">> \o CRLF
         THEN smtp_pc' # "data" /\ data' = data
         ELSE /\ smtp_pc' = "data"
              /\ data' = Append(data, IF Head(line') = "."
                                        THEN Tail(line') ELSE line')]_vars

\* ------------------------------------------------------------------- C2

\* C2: the sender and the recipients handed to the translator when a body
\* ends are among the addresses given since the last MAIL FROM or completed
\* DATA; nothing given before that is among them.
C2_TransactionIsolation ==
  [][DataCompletion =>
       /\ Range(current_email.from) \subseteq Range(given.from)
       /\ Range(current_email.to) \subseteq Range(given.to)]_vars

\* ------------------------------------------------------------------- C3

\* C3: a request the rate limiter denies is answered with
\* {status: error, code: rate_limit_exceeded}, and nothing else is written
\* and no Storage call is made for it.
C3_RateLimitShortCircuit ==
  [][Denied => Writes(Error("rate_limit_exceeded")) /\ NoCall]_vars

C3_Witness ==
  /\ limiter_calls # <<>>
  /\ ~Last(limiter_calls).allowed
  /\ Last(nep_tx) = Error("rate_limit_exceeded")
  /\ storage_calls = <<>>

\* ------------------------------------------------------------------- C4

\* C4: only the end of a body makes a Storage call, and it makes at most one:
\* store_email, with the email translated from the transaction's sender and
\* recipients.  250 is written after a body only when that call was made and
\* returned, and is written whenever it returned.  For HELO, MAIL FROM:<a>,
\* RCPT TO:<b>, DATA, a body and a lone dot that is one call with sender a
\* and recipients [b], and a final 250 (C4_Witness).
C4_OneStorePerTransaction ==
  [][/\ ~DataCompletion => NoCall
     /\ DataCompletion =>
          /\ NoCall \/ OneCall
          /\ OneCall =>
               /\ Last(storage_calls').op = "store_email"
               /\ Last(storage_calls').arg =
                    smtp_to_nep(Join(data), current_email.from,
                                current_email.to).email
          /\ smtp_tx' # smtp_tx =>
               /\ smtp_tx' = Append(smtp_tx, 250)
               /\ OneCall
               /\ Last(storage_calls').ok
          /\ (OneCall /\ Last(storage_calls').ok) =>
               smtp_tx' = Append(smtp_tx, 250)]_vars

C4_Witness ==
  /\ smtp_tx = <<220, 250, 250, 250, 354, 250>>
  /\ smtp_reads = 6
  /\ storage_calls =
       << [op |-> "store_email",
           arg |-> [from_addr |-> <<"a">>, to_addrs |-> << <<"b">> >>,
                    source |-> <<"h">> \o CRLF],
           ok |-> TRUE] >>

\* ------------------------------------------------------------------- C5

\* C5, for a failure of store_email (a failure of the translation takes the
\* same path through the code): when store_email fails at the end of a body,
\* a reply other than 250 is written, the transaction is reset to empty and
\* the server goes on to read the next command of the connection.
C5_FailureKeepsConnection ==
  [][(DataCompletion /\ OneCall /\ ~Last(storage_calls').ok) =>
       /\ Len(smtp_tx') = Len(smtp_tx) + 1
       /\ Last(smtp_tx') # 250
       /\ current_email' = EmptyEmail
       /\ smtp_pc' = "cmd"]_vars

\* ------------------------------------------------------------------- C6

\* C6: a frame that is no JSON text, or whose JSON has no type field, is
\* answered with {status: error, code: invalid_request}; no RateLimiter call
\* and no Storage call is made, and the request loop goes on.
C6_MalformedIsInvalidRequest ==
  [][(FrameRead /\ ~TypedFrame) =>
       /\ Writes(Error("invalid_request"))
       /\ limiter_calls' = limiter_calls
       /\ NoCall
       /\ nep_pc' = "loop"]_vars

\* ------------------------------------------------------------------- C7

\* C7: an admitted send that lacks to, subject or body is answered with
\* {status: error, code: invalid_data} and makes no Storage call.
C7_SendMissingFields ==
  [][(Admitted("send")
        /\ ~({"to", "subject", "body"} \subseteq DOMAIN Last(nep_rx').fields)) =>
       Writes(Error("invalid_data")) /\ NoCall]_vars

\* ------------------------------------------------------------------- C8

\* C8: when the Storage call of an admitted send or list fails, the response
\* is {status: error, code: storage_error} and the request loop goes on.
C8_StorageFailureIsStorageError ==
  [][((Admitted("send") \/ Admitted("list"))
        /\ OneCall /\ ~Last(storage_calls').ok) =>
       Writes(Error("storage_error")) /\ nep_pc' = "loop"]_vars

\* ------------------------------------------------------------------- C9

\* C9: an admitted send with to, subject and body whose store_email succeeds
\* makes exactly that one Storage call, with from_addr the session's address,
\* and is answered with {status: ok, message_id: the stored email's id}.
C9_SendIsAnsweredOk ==
  [][(Admitted("send")
        /\ {"to", "subject", "body"} \subseteq DOMAIN Last(nep_rx').fields
        /\ OneCall /\ Last(storage_calls').ok) =>
       /\ Last(storage_calls').op = "store_email"
       /\ Last(storage_calls').arg.from_addr = session[1].email
       /\ Writes([status |-> "ok",
                  message_id |-> MessageId(Len(storage_calls'))])]_vars

\* ------------------------------------------------------------------- C10

\* C10: an admitted list makes exactly one Storage call: list_emails with the
\* session's address, the request's mailbox or "INBOX", its limit or 50 and
\* its offset or 0.
C10_ListDefaults ==
  [][Admitted("list") =>
       LET request == Last(nep_rx').fields
           has(k) == k \in DOMAIN request
       IN /\ OneCall
          /\ Last(storage_calls').op = "list_emails"
          /\ Last(storage_calls').arg =
               << session[1].email,
                  IF has("mailbox") THEN request.mailbox ELSE "INBOX",
                  IF has("limit") THEN request.limit ELSE 50,
                  IF has("offset") THEN request.offset ELSE 0 >>]_vars

C10_Witness ==
  /\ Len(nep_rx) = 2
  /\ nep_rx[2] = [kind |-> "object", fields |-> [type |-> "list"]]
  /\ Len(storage_calls) = 1
  /\ storage_calls[1].op = "list_emails"
  /\ storage_calls[1].arg = <<"alice@x", "INBOX", 50, 0>>


\* ------------------------------------------------------------------- C12

\* C12: a first frame that fails authentication is answered with AUTH_FAILED
\* alone and the connection is closed without another frame being read; a
\* second frame, a RateLimiter check or a Storage call exists only on a
\* connection whose first answer was AUTH_OK.
C12_NothingBeforeAuthOk ==
  /\ (nep_rx # <<>> /\ authenticate(nep_rx[1]) = None) =>
       /\ nep_tx = <<AUTH_FAILED>>
       /\ nep_pc = "closed"
       /\ Len(nep_rx) = 1
  /\ (Len(nep_rx) > 1 \/ limiter_calls # <<>> \/ storage_calls # <<>>) =>
       /\ nep_tx # <<>>
       /\ nep_tx[1] = AUTH_OK

C12_Witness ==
  /\ nep_rx = <<"mallory:guess">>
  /\ nep_tx = <<AUTH_FAILED>>
  /\ nep_pc = "closed"

\* ------------------------------------------------------------------- C13

\* C13: every step of a handler that makes a Storage call has asked the
\* RateLimiter first and was answered 'allowed'.
C13_CheckedBeforeStorage ==
  [][storage_calls' # storage_calls =>
       Checked /\ Last(limiter_calls').allowed]_vars

\* ------------------------------------------------------------------- C14

\* C14: an admitted fetch makes one Storage call, get_email, and an admitted
\* update one, update_email_flags; the answer has status ok when the call
\* returned and is {status: error, code: storage_error} when it failed.
C14_FetchAndUpdateDispatched ==
  [][(Admitted("fetch") \/ Admitted("update")) =>
       /\ OneCall
       /\ Last(storage_calls').op =
            (IF Admitted("fetch") THEN "get_email" ELSE "update_email_flags")
       /\ Len(nep_tx') = Len(nep_tx) + 1
       /\ IF Last(storage_calls').ok
            THEN Last(nep_tx').status = "ok"
            ELSE Last(nep_tx') = Error("storage_error")]_vars

\* ------------------------------------------------------------------- C15

\* C15: DATA is answered with 354 only when, since the last reset, HELO or
\* EHLO was answered and a sender and at least one recipient were given; so
\* the transaction handed to the translation at the end of a body has a
\* sender and a recipient.
C15_StateOrder ==
  [][/\ (smtp_pc = "cmd" /\ smtp_pc' = "data") =>
          /\ greeted
          /\ given.from # None
          /\ given.to # <<>>
     /\ DataCompletion =>
          /\ current_email.from # None
          /\ current_email.to # <<>>]_vars

\* ------------------------------------------------------------------- C16

\* the words of each line a peer may send, in upper case
WordsOf ==
  [raw \in CmdLines \cup BodyLines \cup CredLines |->
     Split(Upper(CommandOf(raw)))]

\* the second word of the command read in the step
Mechanism == WordsOf[line'][2]

\* C16: a credential line is awaited only after AUTH PLAIN, and only on a
\* connection that was greeted and has no sender and no recipient pending;
\* neither the AUTH line nor the credential line changes the transaction.
C16_AuthOnlyWhenReady ==
  [][/\ (smtp_pc = "cmd" /\ smtp_pc' = "auth") =>
          /\ Mechanism = <<"P","L","A","I","N">>
          /\ greeted
          /\ current_email.from = None
          /\ current_email.to = <<>>
          /\ current_email' = current_email
     /\ smtp_pc = "auth" => current_email' = current_email]_vars

\* ------------------------------------------------------------------- C17

\* the first word of the command read in the step, in upper case
Verb == IF WordsOf[line'] = <<>> THEN <<>> ELSE WordsOf[line'][1]

\* the first words of the commands the server knows
KnownVerbs ==
  { <<"H","E","L","O">>, <<"E","H","L","O">>, <<"A","U","T","H">>,
    <<"M","A","I","L">>, <<"R","C","P","T">>, <<"D","A","T","A">>,
    <<"Q","U","I","T">> }

\* the server reads a line as a command
CommandRead == smtp_pc = "cmd" /\ smtp_reads' = smtp_reads + 1

QuitRead ==
  /\ smtp_reads' = smtp_reads + 1
  /\ WordsOf[line'] = << <<"Q","U","I","T">> >>

\* C18: wherever the server reads it, also within a body and in place of a
\* credential line, the line QUIT is answered with 221 and ends the
\* connection, and no Storage call is made.
C18_QuitAnywhere ==
  [][QuitRead =>
       /\ smtp_tx' = Append(smtp_tx, 221)
       /\ smtp_pc' = "closed"
       /\ NoCall]_vars

\* C18, amended: read as a command, the line QUIT is answered with 221 and
\* ends the connection without a Storage call.  Read within a body it is a
\* line of the body, and read in place of a credential line it is the
\* credential: it gets the reply of the credential check and the next command
\* is awaited.
C18_QuitAtCommand ==
  [][QuitRead =>
       /\ NoCall
       /\ smtp_pc = "cmd" =>
            smtp_tx' = Append(smtp_tx, 221) /\ smtp_pc' = "closed"
       /\ smtp_pc = "data" =>
            /\ data' = Append(data, line')
            /\ smtp_tx' = smtp_tx
            /\ smtp_pc' = "data"
       /\ smtp_pc = "auth" =>
            /\ Len(smtp_tx') = Len(smtp_tx) + 1
            /\ Last(smtp_tx') \in {235, 535}
            /\ smtp_pc' = "cmd"]_vars

C18_Witness ==
  /\ line = <<"Q","U","I","T">> \o CRLF
  /\ Last(smtp_tx) = 221
  /\ smtp_pc = "closed"
  /\ current_email.from # None
  /\ current_email.to # <<>>


\* ------------------------------------------------------------------- C11

\* the endpoints other than the index page
Gated ==
  { "web_inbox", "api_list_mails", "api_get_mail", "api_send_mail",
    "api_update_mail", "api_create_user", "api_delete_user" }

\* the calls that change what Storage holds
Mutating ==
  { "store_email", "update_email_flags", "create_user", "delete_user" }

\* C11: a request without a valid session to an endpoint other than the
\* index page (inbox page, list mails, get mail, send mail, update mail,
\* create user, delete user) is answered with 401 and makes no Storage call
\* that changes what Storage holds.
C11_AuthGating ==
  [][(/\ http_requests' = http_requests + 1
      /\ http_request'.route \in Gated
      /\ authenticate_web(http_request'.cookie) = None) =>
       /\ http_response' = Status(401)
       /\ \A i \in Len(storage_calls) + 1 .. Len(storage_calls') :
            storage_calls'[i].op \notin Mutating]_vars


\* ------------------------------------------------------------------- C19

\* C19: a native session reads its next request frame only when the request
\* before it has taken all its steps (the RateLimiter check, the Storage
\* calls, the write of its response), so that never more than one request of
\* a session is unanswered; two sessions may each have a request in flight.
C19_OneRequestInFlight ==
  [][\A c \in Conns :
       /\ conns'[c].kind = "nep" =>
            conns'[c].frames - conns'[c].answered \in {0, 1}
       /\ (conns[c].kind = "nep"
           /\ conns'[c].frames = conns[c].frames + 1) =>
            /\ conns[c].todo = <<>>
            /\ conns[c].answered = conns[c].frames]_vars

C19_Witness ==
  /\ conns[1].kind = "nep"
  /\ conns[1].frames = 2
  /\ conns[1].answered = 1
  /\ conns[1].todo = <<"call", "write">>
  /\ conns[2].kind = "nep"
  /\ conns[2].pc = "busy"

\* ------------------------------------------------------------------- C20

\* the session is running
Running(c) == conns[c].pc \notin {"free", "closed"}

\* C20: a step that ends a session, whatever ends it, leaves every other
\* session as it was, and after every step the acceptor still accepts.
C20_FaultIsolation ==
  [][/\ accepting'
     /\ \A c \in Conns :
          (Running(c) /\ conns'[c].pc = "closed") =>
            \A d \in Conns \ {c} : conns'[d] = conns[d]]_vars

C20_Witness ==
  /\ accepting
  /\ conns[1].kind = "smtp"
  /\ conns[1].end = "fault"
  /\ conns[2].kind = "nep"
  /\ conns[2].pc = "busy"
  /\ conns[2].frames = 2


\* ------------------------------------------------------------------- C21

\* the connection ends within a body: no further line is read
BodyAbort ==
  /\ smtp_pc = "data"
  /\ smtp_pc' = "closed"
  /\ smtp_reads' = smtp_reads

\* C21: when the peer disconnects after the 354 and before the line with the
\* lone dot, the session ends without a Storage call and without a reply,
\* and nothing is stored or replied on the closed connection afterwards: the
\* lines of the body read so far are never stored.
C21_PartialBodyNotStored ==
  [][/\ BodyAbort => NoCall /\ smtp_tx' = smtp_tx
     /\ smtp_pc = "closed" =>
          /\ NoCall
          /\ smtp_tx' = smtp_tx
          /\ smtp_pc' = "closed"]_vars

C21_Witness ==
  /\ smtp_pc = "closed"
  /\ Last(smtp_tx) = 354
  /\ data = << <<"h">> \o CRLF >>
  /\ ~IsEndMarker(line)
  /\ current_email.from # None
  /\ current_email.to # <<>>
  /\ storage_calls = <<>>

====
